---------------------------- MODULE Spec2Model ----------------------------
(***************************************************************************)
(* Usage metering of the geospatial dashboard: the CostTracker ledger      *)
(* (services/costTracker.js) and the data-request handler of App.jsx that  *)
(* drives it (estimate, admission, fetch, record).                         *)
(*                                                                         *)
(* Money is counted in units of 0.0001 USD, so every cost is an integer.   *)
(***************************************************************************)
EXTENDS Integers, Sequences, FiniteSets, TLC

(***************************************************************************)
(* Bounds of the model.                                                    *)
(***************************************************************************)
\* records kept in the ghost event log (caps recordRequest calls per run)
MaxRecords == 2
\* calendar days the clock runs through
MaxDay == 2
\* the monthly request limit of a paying tier, as the claims use it (100 there)
ClaimRequestLimit == 2
\* LoginModal: the timers of demo buttons that have yet to fire, and the login
\* requests waiting for an answer
MaxTimers == 2
MaxLoginRequests == 2

\* the notifications the App adds
MaxNotifications == 4

\* the fetchRoute runs RouteComponent starts
MaxFetches == 3

\* answered and failed requests in the event log the metrics are computed from
MaxOkEvents == 8
MaxErrorEvents == 2

(***************************************************************************)
(* JavaScript values.  A value carries its type tag: a number n, a string  *)
(* (the sequence s of its pieces) or the object an estimate endpoint       *)
(* answers with, whose costBreakdown.totalCost is n.                       *)
(***************************************************************************)
Num(n) == [t |-> "number", n |-> n, s |-> << >>]
Str(s) == [t |-> "string", n |-> 0, s |-> s]
Obj(n) == [t |-> "object", n |-> n, s |-> << >>]

\* String(v), as the + operator applies it to an operand
ToStr(v) ==
  CASE v.t = "number" -> << ToString(v.n) >>
    [] v.t = "string" -> v.s
    [] OTHER -> << "[object Object]" >>

\* a + b: numeric addition of two numbers, string concatenation otherwise
JsAdd(a, b) ==
  IF a.t = "number" /\ b.t = "number"
    THEN Num(a.n + b.n)
    ELSE Str(ToStr(a) \o ToStr(b))

\* v.toFixed exists on numbers only; calling it on anything else throws TypeError
HasToFixed(v) == v.t = "number"

(***************************************************************************)
(* CostTracker                                                             *)
(***************************************************************************)
\* callers of the tracker's methods in the tracker's own specification
Clients == {"a", "b"}

\* heap addresses of usage objects: the tracker and every client can hold one
\* and initialize still finds a free one
Addr == 1 .. (Cardinality(Clients) + 2)

\* the object literal of the constructor and of initialize
ZeroUsage ==
  [cost_today |-> Num(0), requests_today |-> Num(0),
   cost_month |-> Num(0), requests_month |-> Num(0)]

\* a recordRequest that forgets the monthly request counter
RecordRequestNoMonth(u, cost) ==
  [u EXCEPT !.cost_today = JsAdd(@, cost),
            !.requests_today = JsAdd(@, Num(1)),
            !.cost_month = JsAdd(@, cost)]

\* a recordRequest that stops after the daily cost: a partial record
RecordRequestPartial(u, cost) ==
  [u EXCEPT !.cost_today = JsAdd(@, cost)]

\* recordRequest(apiType, requestType, cost): the four += on this.currentUsage
RecordRequest(u, cost) ==
  [u EXCEPT !.cost_today = JsAdd(@, cost),
            !.requests_today = JsAdd(@, Num(1)),
            !.cost_month = JsAdd(@, cost),
            !.requests_month = JsAdd(@, Num(1))]

\* canMakeRequest(estimatedCost): "For demo purposes, always allow requests"
CanMakeRequest(estimatedCost) == TRUE

\* no pure function was called yet
NoCall == [fn |-> "none"]

VARIABLES
  \* CostTracker
  userId,            \* this.userId ("" is null)
  userTier,          \* this.userTier
  currentUsage,      \* this.currentUsage: the address of the usage object
  heap,              \* the usage objects, by address
  \* environment and history
  today,             \* the calendar day
  log,               \* every recordRequest call made: [id, cost, day]
  entryStart,        \* Len(log) when this.currentUsage was last replaced
  client,            \* the callers of the tracker specification
  \* App
  user, showPaymentModal, processing, loading, currentCost,
  selectedAPI, requestType, regionCenter, pathPoints, mapData,
  effectPending,     \* the [user] effect has yet to run
  login,             \* the handleLogin call waiting for its health check
  run,               \* the handleGetData call in progress, or the last one
  \* the dashboard's App (geospatial-dashboard/src/App.jsx) and its API client
  apiKey,            \* APIClient.apiKey ("" is none)
  showLoginModal, radius, bufferWidth,
  payNowPressed,     \* Pay Now was pressed since the payment modal opened
  \* the pure functions
  call,              \* the last call of one: its name, arguments and result
  inFlight,          \* the handleGetData runs between setLoading(true) and finally
  \* LoginModal
  email, modalLoading, modalError,
  timers,            \* the setTimeout(handleSubmit, 100) calls yet to fire
  loginRequest,      \* the login request waiting for its answer
  onLoginData,       \* what onLogin was last called with
  \* NotificationManager
  notifications,     \* the App's notifications: id and type
  dismissIn,         \* by id, the time left on the timer of its Notification
  nextId,            \* the ids handed out so far, plus one
  \* googleMaps.js and RouteComponent
  googleMapsLoaded, googleMapsPromise,
  scripts,           \* the script elements appended to document.head
  windowGoogle,      \* window.google is defined
  mapsKey,           \* import.meta.env.VITE_GOOGLE_MAPS_API_KEY is set
  routePoints,       \* the pathPoints prop: its length and which points
  routeData, routeLoading,
  fetches            \* the fetchRoute runs, each with its fetchDirections call

trackerVars == << userId, userTier, currentUsage, heap, log, entryStart >>
appVars == << user, showPaymentModal, processing, loading, currentCost,
              selectedAPI, requestType, regionCenter, pathPoints, mapData,
              effectPending, run >>
dashVars == << apiKey, showLoginModal, radius, bufferWidth, payNowPressed >>
modalVars == << email, modalLoading, modalError, timers, loginRequest, onLoginData >>
noteVars == << notifications, dismissIn, nextId >>
routeVars == << googleMapsLoaded, googleMapsPromise, scripts, windowGoogle, mapsKey,
                routePoints, routeData, routeLoading, fetches >>
widgetVars == << modalVars, noteVars, routeVars >>
compVars == << inFlight, widgetVars >>
baseVars == << trackerVars, today, client, login, appVars, dashVars, call >>
vars == << baseVars, compVars >>

\* this.currentUsage, dereferenced
Usage == heap[currentUsage]

\* the addresses some client still holds a usage object at
Held == { client[c].held : c \in Clients } \ {0}

\* the address a new object literal is allocated at: one that holds no object
\* anybody can still reach
FreshAddr == CHOOSE a \in Addr \ Held : \A b \in Addr \ Held : a <= b

\* initialize(userId, userTier): this.currentUsage becomes a new zeroed object;
\* the old one lives on only where a caller still holds it
Initialize(uid, tier) ==
  /\ userId' = uid
  /\ userTier' = tier
  /\ currentUsage' = FreshAddr
  /\ heap' = [a \in Addr |-> IF a \in Held THEN heap[a] ELSE ZeroUsage]
  /\ entryStart' = Len(log)
  /\ UNCHANGED log

\* recordRequest(apiType, requestType, cost) for the request with the given id:
\* the object this.currentUsage points at is updated in place
DoRecordRequest(id, cost) ==
  /\ heap' = [heap EXCEPT ![currentUsage] = RecordRequest(@, cost)]
  /\ log' = Append(log, [id |-> id, cost |-> cost, day |-> today])
  /\ UNCHANGED << userId, userTier, currentUsage, entryStart >>

(***************************************************************************)
(* The tracker on its own: every client calls the async methods with       *)
(* inputs of the documented types.  A method body holds no await, so it    *)
(* runs to its end inside the call; the caller resumes later, when the     *)
(* returned promise is delivered.                                          *)
(***************************************************************************)
UserIds == {"u1"}
Tiers == {"FREE", "premium"}
\* completed requests: a request id and its numeric total cost
Events == {[id |-> "r1", cost |-> 3], [id |-> "r2", cost |-> 7]}
\* cost estimates handed to canMakeRequest
Estimates == {Num(3), Num(7)}

IdleClient ==
  [pc |-> "idle", op |-> "none", admit |-> "none", held |-> 0, seen |-> ZeroUsage]

\* a client makes a call: it lets go of the usage object an earlier
\* getCurrentUsage gave it
Calls(c, op) ==
  [IdleClient EXCEPT !.pc = "awaiting", !.op = op]

TInitialize(c, uid, tier) ==
  /\ client[c].pc = "idle"
  /\ Initialize(uid, tier)
  /\ client' = [client EXCEPT ![c] = Calls(c, "initialize")]
  /\ UNCHANGED << compVars, call, dashVars, today, login, appVars >>

\* getCurrentUsage(): return this.currentUsage, the object itself
TGetCurrentUsage(c) ==
  /\ client[c].pc = "idle"
  /\ client' = [client EXCEPT ![c] =
       [Calls(c, "getCurrentUsage") EXCEPT !.held = currentUsage, !.seen = Usage]]
  /\ UNCHANGED << compVars, call, dashVars, trackerVars, today, login, appVars >>

TCanMakeRequest(c, estimatedCost) ==
  /\ client[c].pc = "idle"
  /\ client' = [client EXCEPT ![c] =
       [Calls(c, "canMakeRequest") EXCEPT
          !.admit = IF CanMakeRequest(estimatedCost) THEN "true" ELSE "false"]]
  /\ UNCHANGED << compVars, call, dashVars, trackerVars, today, login, appVars >>

TRecordRequest(c, e) ==
  /\ client[c].pc = "idle"
  /\ Len(log) < MaxRecords
  /\ DoRecordRequest(e.id, Num(e.cost))
  /\ client' = [client EXCEPT ![c] = Calls(c, "recordRequest")]
  /\ UNCHANGED << compVars, call, dashVars, today, login, appVars >>

\* the awaited promise is delivered: the caller goes on
TResume(c) ==
  /\ client[c].pc = "awaiting"
  /\ client' = [client EXCEPT ![c] =
       [@ EXCEPT !.pc = "idle", !.op = "none", !.admit = "none"]]
  /\ UNCHANGED << compVars, call, dashVars, trackerVars, today, login, appVars >>

\* midnight: nothing in the tracker runs
DayPasses ==
  /\ today < MaxDay
  /\ today' = today + 1
  /\ UNCHANGED << compVars, call, dashVars, trackerVars, client, login, appVars >>

(***************************************************************************)
(* App: session, payment, map selection                                    *)
(***************************************************************************)
\* useState(null) for user
NoUser ==
  [loggedIn |-> FALSE, id |-> "", subscription_tier |-> "", paymentStatus |-> ""]

\* what a login modal hands to onLogin; "" is a field the object lacks
UserData ==
  { [id |-> "", subscription_tier |-> "", paymentStatus |-> "unpaid"],
    [id |-> "u1", subscription_tier |-> "", paymentStatus |-> "unpaid"],
    [id |-> "u1", subscription_tier |-> "premium", paymentStatus |-> "unpaid"] }

\* v || d
OrDefault(v, d) == IF v = "" THEN d ELSE v

NoLogin == [active |-> FALSE, id |-> "", subscription_tier |-> "", paymentStatus |-> ""]

\* a click on the page can be handled: effects of the last render have run, and
\* the payment modal, a fixed full-screen layer above the page, is not open
UiFree == ~effectPending /\ ~showPaymentModal

\* handleLogin(userData) up to its await of apiClient.testConnection(); Navbar
\* renders Login while there is no user
HandleLogin(userData) ==
  /\ UiFree
  /\ ~user.loggedIn
  /\ ~login.active
  /\ login' = [active |-> TRUE, id |-> userData.id,
               subscription_tier |-> userData.subscription_tier,
               paymentStatus |-> userData.paymentStatus]
  /\ UNCHANGED << compVars, call, dashVars, trackerVars, today, client, appVars >>

\* handleLogin after the await: the health check came back connected, or it
\* came back not connected or threw and the catch block ran
LoginResponds(connected) ==
  /\ login.active
  /\ login' = NoLogin
  /\ IF connected
       THEN /\ user' = [loggedIn |-> TRUE, id |-> login.id,
                        subscription_tier |-> login.subscription_tier,
                        paymentStatus |-> OrDefault(login.paymentStatus, "unpaid")]
            /\ effectPending' = TRUE
       ELSE UNCHANGED << user, effectPending >>
  /\ UNCHANGED << compVars, call, dashVars, trackerVars, today, client, showPaymentModal, processing,
                  loading, currentCost, selectedAPI, requestType, regionCenter,
                  pathPoints, mapData, run >>

HandleLogout ==
  /\ UiFree
  /\ user.loggedIn
  /\ user' = NoUser
  /\ mapData' = "null"
  /\ regionCenter' = FALSE
  /\ pathPoints' = 0
  /\ effectPending' = TRUE
  /\ UNCHANGED << compVars, call, dashVars, trackerVars, today, client, login, showPaymentModal, processing,
                  loading, currentCost, selectedAPI, requestType, run >>

\* Navbar renders Upgrade for a user who has not paid
HandleUpgrade ==
  /\ UiFree
  /\ user.loggedIn /\ user.paymentStatus # "paid"
  /\ showPaymentModal' = TRUE
  /\ UNCHANGED << compVars, call, dashVars, trackerVars, today, client, login, user, processing, loading,
                  currentCost, selectedAPI, requestType, regionCenter, pathPoints,
                  mapData, effectPending, run >>

\* PaymentModal, Pay Now: setProcessing(true) and the 2 s timer is started
PayNow ==
  /\ ~effectPending
  /\ showPaymentModal
  /\ ~processing
  /\ processing' = TRUE
  /\ UNCHANGED << compVars, call, dashVars, trackerVars, today, client, login, user, showPaymentModal,
                  loading, currentCost, selectedAPI, requestType, regionCenter,
                  pathPoints, mapData, effectPending, run >>

\* the timer fires: onPayment() is App.handlePayment, whose updater spreads the
\* previous user (null spreads to nothing); then setProcessing(false), onClose()
PaymentTimer ==
  /\ processing
  /\ user' = [user EXCEPT !.loggedIn = TRUE, !.paymentStatus = "paid"]
  /\ effectPending' = TRUE
  /\ processing' = FALSE
  /\ showPaymentModal' = FALSE
  /\ UNCHANGED << compVars, call, dashVars, trackerVars, today, client, login, loading, currentCost,
                  selectedAPI, requestType, regionCenter, pathPoints, mapData, run >>

\* PaymentModal, Cancel (disabled while processing)
ClosePaymentModal ==
  /\ ~effectPending
  /\ showPaymentModal
  /\ ~processing
  /\ showPaymentModal' = FALSE
  /\ UNCHANGED << compVars, call, dashVars, trackerVars, today, client, login, user, processing, loading,
                  currentCost, selectedAPI, requestType, regionCenter, pathPoints,
                  mapData, effectPending, run >>

HandleRegionClick ==
  /\ UiFree
  /\ requestType = "region"
  /\ regionCenter' = TRUE
  /\ pathPoints' = 0
  /\ UNCHANGED << compVars, call, dashVars, trackerVars, today, client, login, user, showPaymentModal,
                  processing, loading, currentCost, selectedAPI, requestType,
                  mapData, effectPending, run >>

HandlePathClick ==
  /\ UiFree
  /\ requestType = "path"
  /\ IF pathPoints < 2
       THEN pathPoints' = pathPoints + 1 /\ regionCenter' = FALSE
       ELSE pathPoints' = 1 /\ UNCHANGED regionCenter
  /\ UNCHANGED << compVars, call, dashVars, trackerVars, today, client, login, user, showPaymentModal,
                  processing, loading, currentCost, selectedAPI, requestType,
                  mapData, effectPending, run >>

HandleAPIChange(api) ==
  /\ UiFree
  /\ user.loggedIn
  /\ selectedAPI' = api
  /\ mapData' = "null"
  /\ UNCHANGED << compVars, call, dashVars, trackerVars, today, client, login, user, showPaymentModal,
                  processing, loading, currentCost, requestType, regionCenter,
                  pathPoints, effectPending, run >>

HandleRequestTypeChange(type) ==
  /\ UiFree
  /\ user.loggedIn
  /\ requestType' = type
  /\ regionCenter' = FALSE
  /\ pathPoints' = 0
  /\ mapData' = "null"
  /\ UNCHANGED << compVars, call, dashVars, trackerVars, today, client, login, user, showPaymentModal,
                  processing, loading, currentCost, selectedAPI, effectPending, run >>

\* the effect on [user]: initCostTracker.  initialize and getCurrentUsage hold
\* no await, so the three steps run within one task
InitCostTracker ==
  /\ effectPending
  /\ effectPending' = FALSE
  /\ IF user.loggedIn /\ user.id # ""
       THEN /\ Initialize(user.id, OrDefault(user.subscription_tier, "FREE"))
            /\ currentCost' = heap'[currentUsage'].cost_today
       ELSE UNCHANGED << trackerVars, currentCost >>
  /\ UNCHANGED << compVars, call, dashVars, today, client, login, user, showPaymentModal, processing, loading,
                  selectedAPI, requestType, regionCenter, pathPoints, mapData, run >>

(***************************************************************************)
(* App.handleGetData                                                       *)
(***************************************************************************)
\* totalCost of the cost breakdowns the estimate endpoints answer with
EstimateTotals == {3, 7}

\* messages of the errors apiClient.request throws
ErrorMessages == {"HTTP 402: Payment Required", "payment required", "Failed to fetch"}

\* an awaited request ends: a value, or an Error with a message
EstimateResults ==
  { [kind |-> "ok", value |-> Obj(c), message |-> ""] : c \in EstimateTotals }
  \cup { [kind |-> "error", value |-> Num(0), message |-> m] : m \in ErrorMessages }

FetchResults ==
  { [kind |-> "ok", message |-> ""] }
  \cup { [kind |-> "error", message |-> m] : m \in ErrorMessages }

\* error.message?.includes("402") || error.message?.includes("payment")
IsPaymentError(message) ==
  message \in {"HTTP 402: Payment Required", "payment required"}

\* the message of the TypeError of calling toFixed on a value without it
ToFixedTypeError == "estimatedCost.toFixed is not a function"

\* an await that never throws
AwaitNeverThrows(result) == FALSE

\* await of a rejected promise throws: the rest of the try block is skipped
AwaitThrows(result) == result.kind = "error"

\* no handleGetData call is in progress; outcome tells how the last one ended
\* estimated: the estimate request answered with a value
IdleRun ==
  [pc |-> "idle", requestType |-> "region", selectedAPI |-> "uhi",
   estimatedCost |-> Num(0), estimated |-> FALSE, outcome |-> "none"]

Ended(outcome) == [IdleRun EXCEPT !.outcome = outcome]

\* a Get Data button that is not disabled while loading
GetDataEnabledAlways == user.loggedIn

\* the Get Data button: rendered for a user, disabled while loading
GetDataEnabled == user.loggedIn /\ ~loading

\* the four checks at the head of handleGetData
Validate ==
  CASE ~user.loggedIn -> "login"
    [] user.paymentStatus # "paid" -> "payment"
    [] requestType = "region" /\ ~regionCenter -> "center"
    [] requestType = "path" /\ pathPoints < 2 -> "path"
    [] OTHER -> "ok"

\* mapData.type for the data of the selected API, from the response or the
\* sample set
MapType(api) == IF api = "potholes" THEN "geojson" ELSE "uhi"

\* the catch block, then finally: what mapData and showPaymentModal become
CatchModal(message) == IF IsPaymentError(message) THEN TRUE ELSE showPaymentModal
CatchMapData(message) ==
  IF IsPaymentError(message) THEN mapData ELSE MapType(run.selectedAPI)

\* handleGetData from the click to its first await: validation, setLoading(true),
\* and the estimate request is sent
HandleGetData ==
  /\ UiFree
  /\ GetDataEnabled
  /\ Len(log) < MaxRecords
  /\ IF Validate = "ok"
       THEN /\ loading' = TRUE
            /\ inFlight' = inFlight + 1
            /\ run' = [IdleRun EXCEPT !.pc = "estimate",
                         !.requestType = requestType, !.selectedAPI = selectedAPI]
            /\ UNCHANGED showPaymentModal
       ELSE /\ showPaymentModal' = IF Validate = "payment" THEN TRUE ELSE showPaymentModal
            /\ UNCHANGED << loading, run, inFlight >>
  /\ UNCHANGED << widgetVars, call, dashVars, trackerVars, today, client, login, user, processing, currentCost,
                  selectedAPI, requestType, regionCenter, pathPoints, mapData,
                  effectPending >>

\* the estimate request ends.  On a value: canMakeRequest; denied, the payment
\* modal opens and the handler returns through finally; admitted, the data
\* request is sent.  On an error: catch, finally.
EstimateResponds(result) ==
  /\ run.pc = "estimate"
  /\ IF AwaitThrows(result)
       THEN /\ run' = Ended("estimateFailed")
            /\ showPaymentModal' = CatchModal(result.message)
            /\ mapData' = CatchMapData(result.message)
            /\ loading' = FALSE
            /\ inFlight' = inFlight - 1
       ELSE IF CanMakeRequest(result.value)
         THEN /\ run' = [run EXCEPT !.pc = "fetch", !.estimatedCost = result.value,
                           !.estimated = (result.kind = "ok")]
              /\ UNCHANGED << showPaymentModal, mapData, loading, inFlight >>
         ELSE /\ run' = Ended("denied")
              /\ showPaymentModal' = TRUE
              /\ loading' = FALSE
              /\ inFlight' = inFlight - 1
              /\ UNCHANGED mapData
  /\ UNCHANGED << widgetVars, call, dashVars, trackerVars, today, client, login, user, processing, currentCost,
                  selectedAPI, requestType, regionCenter, pathPoints, effectPending >>

\* the data request ends.  On a response: recordRequest with the estimate,
\* getCurrentUsage, setCurrentCost, then the notification with
\* estimatedCost.toFixed(4), which throws on a value that is no number, and the
\* response (or, without data, the sample set) goes to the map.  On an error,
\* or the TypeError: catch.  finally.
FetchResponds(result) ==
  /\ run.pc = "fetch"
  /\ run' = Ended(IF result.kind = "ok" THEN "fetched" ELSE "fetchFailed")
  /\ IF AwaitThrows(result)
       THEN /\ showPaymentModal' = CatchModal(result.message)
            /\ mapData' = CatchMapData(result.message)
            /\ UNCHANGED << trackerVars, currentCost >>
       ELSE /\ DoRecordRequest(ToString(Len(log) + 1), run.estimatedCost)
            /\ currentCost' = heap'[currentUsage].cost_today
            /\ IF HasToFixed(run.estimatedCost)
                 THEN /\ mapData' = MapType(run.selectedAPI)
                      /\ UNCHANGED showPaymentModal
                 ELSE /\ showPaymentModal' = CatchModal(ToFixedTypeError)
                      /\ mapData' = CatchMapData(ToFixedTypeError)
  /\ loading' = FALSE
  /\ inFlight' = inFlight - 1
  /\ UNCHANGED << widgetVars, call, dashVars, today, client, login, user, processing, selectedAPI, requestType,
                  regionCenter, pathPoints, effectPending >>

(***************************************************************************)
(* The dashboard (geospatial-dashboard/src): App.jsx, its modals, Sidebar   *)
(* and the API client of services/api.js.  The React state of the same     *)
(* name is kept in the same variable as above.                             *)
(***************************************************************************)
\* a string as the sequence of its characters
Msg402 == << "H", "T", "T", "P", " ", "4", "0", "2", ":", " ", "P", "a", "y", "m", "e", "n", "t", " ", "R", "e", "q", "u", "i", "r", "e", "d" >>
Msg401 == << "H", "T", "T", "P", " ", "4", "0", "1", ":", " ", "U", "n", "a", "u", "t", "h", "o", "r", "i", "z", "e", "d" >>
Msg500 == << "H", "T", "T", "P", " ", "5", "0", "0", ":", " ", "I", "n", "t", "e", "r", "n", "a", "l", " ", "S", "e", "r", "v", "e", "r", " ", "E", "r", "r", "o", "r" >>
MsgFailedToFetch == << "F", "a", "i", "l", "e", "d", " ", "t", "o", " ", "f", "e", "t", "c", "h" >>
\* messages a backend puts in the body of an error response
BodyUpgrade == << "U", "p", "g", "r", "a", "d", "e", " ", "y", "o", "u", "r", " ", "p", "l", "a", "n" >>
BodyInvalidKey == << "I", "n", "v", "a", "l", "i", "d", " ", "A", "P", "I", " ", "K", "e", "y" >>
BodyNoSession == << "S", "e", "s", "s", "i", "o", "n", " ", "e", "x", "p", "i", "r", "e", "d" >>

\* message.includes(pattern)
Includes(message, pattern) ==
  \E i \in 1 .. (Len(message) - Len(pattern) + 1) :
     SubSeq(message, i, i + Len(pattern) - 1) = pattern

\* useState(null) for user; "" is a field the object lacks
DashNoUser ==
  [loggedIn |-> FALSE, apiKey |-> "", subscription_status |-> "", paymentStatus |-> ""]

\* what the login endpoint answers with and LoginModal hands to onLogin
DashUserData ==
  { [api_key |-> "", subscription_status |-> "free"],
    [api_key |-> "key_free", subscription_status |-> "free"],
    [api_key |-> "key_premium", subscription_status |-> "premium"] }

DashNoLogin == [active |-> FALSE, api_key |-> "", subscription_status |-> ""]

\* a click on the page can be handled: no modal, a fixed full-screen layer
\* above the page, is open
DashUiFree == ~showLoginModal /\ ~showPaymentModal

\* Sidebar renders its controls for a premium or paid user only
SidebarControls ==
  /\ user.loggedIn
  /\ ~(user.subscription_status # "premium" /\ user.paymentStatus # "paid")

\* Navbar's Login button, rendered while there is no user
OpenLoginModal ==
  /\ DashUiFree
  /\ ~user.loggedIn
  /\ showLoginModal' = TRUE
  /\ UNCHANGED << compVars, call, trackerVars, today, client, login, appVars, apiKey, radius,
                  bufferWidth, payNowPressed >>

\* LoginModal's onClose (Cancel)
CloseLoginModal ==
  /\ showLoginModal
  /\ showLoginModal' = FALSE
  /\ UNCHANGED << compVars, call, trackerVars, today, client, login, appVars, apiKey, radius,
                  bufferWidth, payNowPressed >>

\* LoginModal got its answer: onLogin(userData), which is handleLogin up to its
\* await of testConnection (without an api_key it throws into its catch block),
\* then onClose()
DashHandleLogin(userData) ==
  /\ showLoginModal
  /\ ~login.active
  /\ IF userData.api_key = ""
       THEN UNCHANGED << apiKey, login >>
       ELSE /\ apiKey' = userData.api_key
            /\ login' = [active |-> TRUE, api_key |-> userData.api_key,
                         subscription_status |-> userData.subscription_status]
  /\ showLoginModal' = FALSE
  /\ UNCHANGED << compVars, call, trackerVars, today, client, appVars, radius, bufferWidth,
                  payNowPressed >>

\* handleLogin after the await: testConnection answers connected or not (it
\* catches every error itself)
DashLoginResponds(connected) ==
  /\ login.active
  /\ login' = DashNoLogin
  /\ IF connected
       THEN user' = [loggedIn |-> TRUE, apiKey |-> login.api_key,
                     subscription_status |-> login.subscription_status,
                     paymentStatus |->
                       IF login.subscription_status = "premium" THEN "paid" ELSE "unpaid"]
       ELSE UNCHANGED user
  /\ UNCHANGED << compVars, call, trackerVars, today, client, showPaymentModal, processing, loading,
                  currentCost, selectedAPI, requestType, regionCenter, pathPoints,
                  mapData, effectPending, run, dashVars >>

\* Navbar's Logout button, rendered for a user
DashHandleLogout ==
  /\ DashUiFree
  /\ user.loggedIn
  /\ apiKey' = ""
  /\ user' = DashNoUser
  /\ mapData' = "null"
  /\ regionCenter' = FALSE
  /\ pathPoints' = 0
  /\ UNCHANGED << compVars, call, trackerVars, today, client, login, showPaymentModal, processing,
                  loading, currentCost, selectedAPI, requestType, effectPending, run,
                  showLoginModal, radius, bufferWidth, payNowPressed >>

\* Navbar's Upgrade button, rendered for a user who has not paid
DashHandleUpgrade ==
  /\ DashUiFree
  /\ user.loggedIn /\ user.paymentStatus # "paid"
  /\ showPaymentModal' = TRUE
  /\ UNCHANGED << compVars, call, trackerVars, today, client, login, user, processing, loading,
                  currentCost, selectedAPI, requestType, regionCenter, pathPoints,
                  mapData, effectPending, run, dashVars >>

\* App renders <PaymentModal isOpen onClose onPayment />: the modal's user prop
\* is undefined
PaymentModalHasUser == FALSE

\* PaymentModal.handlePayment from the press of Pay Now to its await of the
\* upgrade call: without a user it returns at once
PayNowPressed ==
  /\ payNowPressed' = TRUE
  /\ processing' = PaymentModalHasUser
  /\ UNCHANGED << user, showPaymentModal >>

\* the upgrade call ends: on success onPayment, which is App.handlePayment, and
\* onClose(); on failure the alert; finally setProcessing(false)
UpgradeResponds(ok) ==
  /\ processing' = FALSE
  /\ IF ok
       THEN /\ user' = [user EXCEPT !.paymentStatus = "paid"]
            /\ showPaymentModal' = FALSE
            /\ payNowPressed' = FALSE
       ELSE UNCHANGED << user, showPaymentModal, payNowPressed >>

\* PaymentModal.handlePayment; the Pay Now button is disabled while processing
PaymentModalHandlePayment(ok) ==
  /\ showPaymentModal
  /\ IF processing THEN UpgradeResponds(ok) ELSE PayNowPressed
  /\ UNCHANGED << compVars, call, trackerVars, today, client, login, loading, currentCost,
                  selectedAPI, requestType, regionCenter, pathPoints, mapData,
                  effectPending, run, apiKey, showLoginModal, radius, bufferWidth >>

\* PaymentModal, Cancel (disabled while processing)
DashClosePaymentModal ==
  /\ showPaymentModal
  /\ ~processing
  /\ showPaymentModal' = FALSE
  /\ payNowPressed' = FALSE
  /\ UNCHANGED << compVars, call, trackerVars, today, client, login, user, processing, loading,
                  currentCost, selectedAPI, requestType, regionCenter, pathPoints,
                  mapData, effectPending, run, apiKey, showLoginModal, radius,
                  bufferWidth >>

\* the map takes a click: no modal is open and the loading overlay, which lies
\* over the map while mapData is "loading", is not shown
MapClickable == DashUiFree /\ mapData # "loading"

DashHandleRegionClick ==
  /\ MapClickable
  /\ requestType = "region"
  /\ regionCenter' = TRUE
  /\ pathPoints' = 0
  /\ UNCHANGED << compVars, call, trackerVars, today, client, login, user, showPaymentModal,
                  processing, loading, currentCost, selectedAPI, requestType,
                  mapData, effectPending, run, dashVars >>

\* a handlePathClick that restarts the path one click late
DashHandlePathClickLate ==
  /\ MapClickable
  /\ requestType = "path"
  /\ IF pathPoints < 3
       THEN pathPoints' = pathPoints + 1 /\ regionCenter' = FALSE
       ELSE pathPoints' = 1 /\ UNCHANGED regionCenter
  /\ UNCHANGED << compVars, call, trackerVars, today, client, login, user, showPaymentModal,
                  processing, loading, currentCost, selectedAPI, requestType,
                  mapData, effectPending, run, dashVars >>

\* handlePathClick(latlng), called by the map in path mode
DashHandlePathClick ==
  /\ MapClickable
  /\ requestType = "path"
  /\ IF pathPoints < 2
       THEN pathPoints' = pathPoints + 1 /\ regionCenter' = FALSE
       ELSE pathPoints' = 1 /\ UNCHANGED regionCenter
  /\ UNCHANGED << compVars, call, trackerVars, today, client, login, user, showPaymentModal,
                  processing, loading, currentCost, selectedAPI, requestType,
                  mapData, effectPending, run, dashVars >>

\* handleLocationSelect(location), called by the location search of Sidebar
DashHandleLocationSelect ==
  /\ DashUiFree
  /\ SidebarControls
  /\ IF requestType = "region"
       THEN regionCenter' = TRUE /\ pathPoints' = 0
       ELSE pathPoints' = 1 /\ regionCenter' = FALSE
  /\ UNCHANGED << compVars, call, trackerVars, today, client, login, user, showPaymentModal,
                  processing, loading, currentCost, selectedAPI, requestType,
                  mapData, effectPending, run, dashVars >>

DashHandleAPIChange(api) ==
  /\ DashUiFree
  /\ SidebarControls
  /\ selectedAPI' = api
  /\ mapData' = "null"
  /\ UNCHANGED << compVars, call, trackerVars, today, client, login, user, showPaymentModal,
                  processing, loading, currentCost, requestType, regionCenter,
                  pathPoints, effectPending, run, dashVars >>

DashHandleRequestTypeChange(type) ==
  /\ DashUiFree
  /\ SidebarControls
  /\ requestType' = type
  /\ regionCenter' = FALSE
  /\ pathPoints' = 0
  /\ mapData' = "null"
  /\ UNCHANGED << compVars, call, trackerVars, today, client, login, user, showPaymentModal,
                  processing, loading, currentCost, selectedAPI, effectPending, run,
                  dashVars >>

\* positions of the radius slider (min 1, max 10) the user drags it to
SliderValues == {1, 10}

\* the radius slider, rendered in region mode: onRadiusChange(Number(value))
SetRadius(value) ==
  /\ DashUiFree
  /\ SidebarControls
  /\ requestType = "region"
  /\ radius' = value
  /\ UNCHANGED << compVars, call, trackerVars, today, client, login, appVars, apiKey,
                  showLoginModal, bufferWidth, payNowPressed >>

\* what the user leaves in the buffer width field: nothing, or digits
BufferTexts == {"", "50"}

\* Number(text)
JsNumber(text) == CASE text = "" -> 0 [] text = "50" -> 50

\* the buffer width field, rendered in path mode:
\* onBufferWidthChange(Number(e.target.value))
SetBufferWidth(text) ==
  /\ DashUiFree
  /\ SidebarControls
  /\ requestType = "path"
  /\ bufferWidth' = JsNumber(text)
  /\ UNCHANGED << compVars, call, trackerVars, today, client, login, appVars, apiKey,
                  showLoginModal, radius, payNowPressed >>

\* the data endpoints answer: a body with data, a body without, an error
\* status with or without a message in its body, or no answer at all (status 0)
DashResponses ==
  { [kind |-> k, status |-> 200, body |-> << >>] : k \in {"data", "empty"} }
  \cup { [kind |-> "error", status |-> 402, body |-> b] : b \in {<< >>, BodyUpgrade} }
  \cup { [kind |-> "error", status |-> 401, body |-> b] :
           b \in {<< >>, BodyNoSession, BodyInvalidKey} }
  \cup { [kind |-> "error", status |-> st, body |-> << >>] : st \in {500, 0} }

\* `HTTP ${response.status}: ${response.statusText}`
StatusLine(status) ==
  CASE status = 402 -> Msg402
    [] status = 401 -> Msg401
    [] OTHER -> Msg500

\* the message of the Error APIClient.request throws: fetch's own TypeError, or
\* errorData.message || the status line
ErrorMessage(response) ==
  IF response.status = 0 THEN MsgFailedToFetch
  ELSE IF response.body # << >> THEN response.body
  ELSE StatusLine(response.status)

\* the first test of the catch block of handleGetData
MeansPayment(message) ==
  \/ Includes(message, << "4", "0", "2" >>)
  \/ Includes(message, << "p", "a", "y", "m", "e", "n", "t" >>)
  \/ Includes(message, << "P", "a", "y", "m", "e", "n", "t", " ", "R", "e", "q", "u", "i", "r", "e", "d" >>)

\* its second test
MeansAuthFailure(message) ==
  \/ Includes(message, << "4", "0", "1" >>)
  \/ Includes(message, << "I", "n", "v", "a", "l", "i", "d", " ", "A", "P", "I", " ", "K", "e", "y" >>)

\* Math.random(), in tenths
RandomTenths == 0 .. 9

\* simulateAPICall(endpoint, data): how the promise of the simulated backend is
\* settled, with Math.random() drawing rnd
SimulateAPICall(endpoint, data, rnd) ==
  CASE endpoint = "login" -> [settled |-> "resolve", status |-> 200]
    [] endpoint = "payment" ->
         IF rnd > 1 THEN [settled |-> "resolve", status |-> 200]
         ELSE [settled |-> "reject", status |-> 400]
    [] endpoint \in {"data/region", "data/path"} ->
         IF data.paymentStatus # "paid" THEN [settled |-> "reject", status |-> 402]
         ELSE IF rnd > 8 THEN [settled |-> "resolve", status |-> 202]
         ELSE [settled |-> "resolve", status |-> 200]
    [] endpoint \in {"history", "history/req_001"} ->
         [settled |-> "resolve", status |-> 200]
    [] OTHER -> [settled |-> "reject", status |-> 404]

\* checks that let every logged-in user through
DashValidateNoPayment ==
  CASE ~user.loggedIn -> "login"
    [] requestType = "region" /\ ~regionCenter -> "center"
    [] requestType = "path" /\ pathPoints < 2 -> "path"
    [] OTHER -> "ok"

\* the four checks at the head of handleGetData
DashValidate ==
  CASE ~user.loggedIn -> "login"
    [] user.paymentStatus # "paid" -> "payment"
    [] requestType = "region" /\ ~regionCenter -> "center"
    [] requestType = "path" /\ pathPoints < 2 -> "path"
    [] OTHER -> "ok"

\* handleGetData from the click on Get Data (disabled while loading) to its
\* await: the checks, setLoading(true), setMapData("loading"), setAPIKey and
\* the data request is sent.  A run the checks reject ends at its return.
DashHandleGetData ==
  /\ DashUiFree
  /\ ~loading
  /\ IF DashValidate = "ok"
       THEN /\ loading' = TRUE
            /\ inFlight' = inFlight + 1
            /\ mapData' = "loading"
            /\ apiKey' = OrDefault(user.apiKey, "user3_paid_token")
            /\ run' = [IdleRun EXCEPT !.pc = "fetch", !.requestType = requestType,
                                      !.selectedAPI = selectedAPI]
            /\ UNCHANGED showPaymentModal
       ELSE /\ showPaymentModal' =
                 IF DashValidate = "payment" THEN TRUE ELSE showPaymentModal
            /\ run' = Ended(DashValidate)
            /\ UNCHANGED << loading, mapData, apiKey, inFlight >>
  /\ UNCHANGED << widgetVars, call, trackerVars, today, client, login, user, processing, currentCost,
                  selectedAPI, requestType, regionCenter, pathPoints, effectPending,
                  showLoginModal, radius, bufferWidth, payNowPressed >>

\* an else branch that forgets setMapData
NoDataMapDataKept == mapData

\* the else branch of `response && response.data`: setMapData(null)
NoDataMapData == "null"

\* the data request ends: the response goes to the map, or the catch block
\* runs; finally setLoading(false)
DashFetchResponds(response) ==
  /\ run.pc = "fetch"
  /\ CASE response.kind = "data" ->
            /\ run' = Ended("fetched")
            /\ mapData' = MapType(run.selectedAPI)
            /\ UNCHANGED << showPaymentModal, user >>
       [] response.kind = "empty" ->
            /\ run' = Ended("empty")
            /\ mapData' = NoDataMapData
            /\ UNCHANGED << showPaymentModal, user >>
       [] OTHER ->
            /\ run' = Ended("fetchFailed")
            /\ mapData' = "null"
            /\ showPaymentModal' =
                 IF MeansPayment(ErrorMessage(response)) THEN TRUE ELSE showPaymentModal
            /\ user' =
                 IF ~MeansPayment(ErrorMessage(response))
                      /\ MeansAuthFailure(ErrorMessage(response))
                   THEN DashNoUser ELSE user
  /\ loading' = FALSE
  /\ inFlight' = inFlight - 1
  /\ UNCHANGED << widgetVars, call, trackerVars, today, client, login, processing, currentCost,
                  selectedAPI, requestType, regionCenter, pathPoints, effectPending,
                  dashVars >>

(***************************************************************************)
(* Pure functions.  Coordinates are integers in units of 1/111 degree, so   *)
(* that the "* 111" of getDataInRadius gives kilometres.                    *)
(***************************************************************************)
\* DUMMY_UHI_DATA: samples with lat and lng
DummyUhiData ==
  << [id |-> 1, lat |-> 0, lng |-> 0], [id |-> 2, lat |-> 3, lng |-> 4],
     [id |-> 3, lat |-> 0, lng |-> 5], [id |-> 4, lat |-> 4, lng |-> 4],
     [id |-> 5, lat |-> 6, lng |-> 8], [id |-> 6, lat |-> 9, lng |-> 9] >>

\* DUMMY_POTHOLE_DATA.features: GeoJSON points, coordinates [lng, lat]
DummyPotholeFeatures ==
  << [id |-> 1, coordinates |-> << 0, 0 >>], [id |-> 2, coordinates |-> << 5, 0 >>],
     [id |-> 3, coordinates |-> << 5, 1 >>], [id |-> 4, coordinates |-> << 0, 6 >>],
     [id |-> 5, coordinates |-> << 8, 6 >>] >>

\* Math.sqrt(n) * 111 <= radiusKm, in the units above: for n >= 0 the root is
\* at most r exactly when r is not negative and n is at most r * r
SqrtAtMost(n, r) == r >= 0 /\ n <= r * r

\* Math.pow(center.lat - itemLat, 2) + Math.pow(center.lng - itemLng, 2)
SquaredOffset(center, itemLat, itemLng) ==
  (center.lat - itemLat) * (center.lat - itemLat)
    + (center.lng - itemLng) * (center.lng - itemLng)

\* the item's position as getDataInRadius reads it
ItemLat(item, dataType) ==
  IF dataType = "potholes" THEN item.coordinates[2] ELSE item.lat
ItemLng(item, dataType) ==
  IF dataType = "potholes" THEN item.coordinates[1] ELSE item.lng

\* a getDataInRadius that leaves out the points on the boundary
GetDataInRadiusStrict(center, radiusKm, dataType) ==
  SelectSeq(IF dataType = "potholes" THEN DummyPotholeFeatures ELSE DummyUhiData,
            LAMBDA item :
              /\ SqrtAtMost(SquaredOffset(center, ItemLat(item, dataType),
                                          ItemLng(item, dataType)), radiusKm)
              /\ SquaredOffset(center, ItemLat(item, dataType),
                               ItemLng(item, dataType)) # radiusKm * radiusKm)

\* getDataInRadius(center, radiusKm, dataType)
GetDataInRadius(center, radiusKm, dataType) ==
  SelectSeq(IF dataType = "potholes" THEN DummyPotholeFeatures ELSE DummyUhiData,
            LAMBDA item :
              SqrtAtMost(SquaredOffset(center, ItemLat(item, dataType),
                                       ItemLng(item, dataType)), radiusKm))

\* the centers, radii and data types getDataInRadius is called with
Centers == { [lat |-> la, lng |-> ln] : la \in {0, 1}, ln \in {0, 1, 2} }
RadiiKm == {0, 1, 5, 6, 10}
DataTypes == {"potholes", "uhi"}

CallGetDataInRadius(center, radiusKm, dataType) ==
  /\ call' = [fn |-> "getDataInRadius", center |-> center, radiusKm |-> radiusKm,
              dataType |-> dataType,
              result |-> GetDataInRadius(center, radiusKm, dataType)]
  /\ UNCHANGED << compVars, trackerVars, today, client, login, appVars, dashVars >>

\* Math.sin and Math.cos of an angle in degrees, times 100, for the multiples
\* of 15 degrees the calls below need
Sin100(deg) ==
  LET table == [d \in {0, 15, 30, 45, 60, 75, 90} |->
                  CASE d = 0 -> 0 [] d = 15 -> 26 [] d = 30 -> 50 [] d = 45 -> 71
                    [] d = 60 -> 87 [] d = 75 -> 97 [] OTHER -> 100]
  IN  IF deg >= 0 THEN table[deg] ELSE 0 - table[0 - deg]

Cos100(deg) == Sin100(90 - (IF deg >= 0 THEN deg ELSE 0 - deg))

\* 2 * Math.atan2(Math.sqrt(a), Math.sqrt(1 - a)), in milliradians, for a times
\* 10000: the angle whose half has the squared sine a, read off its values at
\* 0, 30, ..., 180 degrees and interpolated between them
ArcKnots ==
  << [a |-> 0, c |-> 0], [a |-> 670, c |-> 524], [a |-> 2500, c |-> 1047],
     [a |-> 5000, c |-> 1571], [a |-> 7500, c |-> 2094], [a |-> 9330, c |-> 2618],
     [a |-> 10000, c |-> 3142] >>

Arc(a) ==
  LET i == CHOOSE k \in 1 .. (Len(ArcKnots) - 1) :
             ArcKnots[k].a <= a /\ a <= ArcKnots[k + 1].a
  IN  ArcKnots[i].c
        + ((a - ArcKnots[i].a) * (ArcKnots[i + 1].c - ArcKnots[i].c))
            \div (ArcKnots[i + 1].a - ArcKnots[i].a)

\* const R = 6371
EarthRadiusKm == 6371

\* a haversine that takes the cosine of the first latitude twice
CalculateDistanceOneCos(lat1, lng1, lat2, lng2) ==
  LET sLat == Sin100((lat2 - lat1) \div 2)
      sLng == Sin100((lng2 - lng1) \div 2)
      a == sLat * sLat + (((Cos100(lat1) * Cos100(lat1)) * sLng) * sLng) \div 10000
  IN  EarthRadiusKm * Arc(a)

\* calculateDistance(lat1, lng1, lat2, lng2), in metres
CalculateDistance(lat1, lng1, lat2, lng2) ==
  LET sLat == Sin100((lat2 - lat1) \div 2)
      sLng == Sin100((lng2 - lng1) \div 2)
      a == sLat * sLat + (((Cos100(lat1) * Cos100(lat2)) * sLng) * sLng) \div 10000
  IN  EarthRadiusKm * Arc(a)

\* the points calculateDistance is called with, in degrees
Lats == {-30, 0, 30, 60}
Lngs == {-60, 0, 30, 90}

CallCalculateDistance(lat1, lng1, lat2, lng2) ==
  /\ call' = [fn |-> "calculateDistance", lat1 |-> lat1, lng1 |-> lng1,
              lat2 |-> lat2, lng2 |-> lng2,
              result |-> CalculateDistance(lat1, lng1, lat2, lng2)]
  /\ UNCHANGED << compVars, trackerVars, today, client, login, appVars, dashVars >>

(***************************************************************************)
(* Cost estimates.  CostTracker.estimateRegionCost and estimatePathCost     *)
(* return what the estimate endpoints answer; the estimator behind them is  *)
(* modelled from its specification.  Costs are in millionths of a USD,      *)
(* areas in hundredths of a km2, data sizes in ten-thousandths of a MB.     *)
(***************************************************************************)
\* tierPricing: the base cost per request and the volume discount in percent
TierPricing ==
  [free |-> [baseCost |-> 0, volumeDiscount |-> 0],
   basic |-> [baseCost |-> 50000, volumeDiscount |-> 0],
   premium |-> [baseCost |-> 30000, volumeDiscount |-> 40],
   enterprise |-> [baseCost |-> 20000, volumeDiscount |-> 60]]

PricingTiers == {"free", "basic", "premium", "enterprise"}

\* regionAreaKm2(radiusKm) = pi * radiusKm^2
RegionAreaKm2(radiusKm) == (31416 * radiusKm * radiusKm) \div 100

\* the coverage of a path: pathLengthKm * (2 * bufferMeters / 1000)
PathCoverageKm2(pathLengthKm, bufferMeters) ==
  (pathLengthKm * 2 * bufferMeters) \div 10

\* densityFactor(dataType), in hundredths of a MB per km2
DensityFactor(dataType) == IF dataType = "potholes" THEN 1 ELSE 5

\* effectivePerMbCost = perMbCost * (1 - volumeDiscount), perMbCost 0.001 USD
EffectivePerMbCost(tier) == (1000 * (100 - TierPricing[tier].volumeDiscount)) \div 100

\* rounding to 4 decimal places, halves away from zero
Round4(cost) == ((cost + 50) \div 100) * 100

\* an estimate that waives the base cost of large coverages
EstimateCostBulkWaiver(coverage, dataType, tier) ==
  LET size == coverage * DensityFactor(dataType)
      b == [baseCost |-> IF coverage > 5000 THEN 0 ELSE TierPricing[tier].baseCost,
            dataVolumeCost |-> (size * EffectivePerMbCost(tier)) \div 10000,
            processingCost |-> (coverage * 10) \div 100,
            storageCost |-> (size * 50) \div 10000]
  IN  [costBreakdown |->
         [baseCost |-> b.baseCost, dataVolumeCost |-> b.dataVolumeCost,
          processingCost |-> b.processingCost, storageCost |-> b.storageCost,
          totalCost |-> Round4(b.baseCost + b.dataVolumeCost
                                 + b.processingCost + b.storageCost)],
       dataType |-> dataType, userTier |-> tier]

\* the estimate for a coverage: steps 2 to 7 of estimateRegionCost
EstimateCost(coverage, dataType, tier) ==
  LET size == coverage * DensityFactor(dataType)
      b == [baseCost |-> TierPricing[tier].baseCost,
            dataVolumeCost |-> (size * EffectivePerMbCost(tier)) \div 10000,
            processingCost |-> (coverage * 10) \div 100,
            storageCost |-> (size * 50) \div 10000]
  IN  [costBreakdown |->
         [baseCost |-> b.baseCost, dataVolumeCost |-> b.dataVolumeCost,
          processingCost |-> b.processingCost, storageCost |-> b.storageCost,
          totalCost |-> Round4(b.baseCost + b.dataVolumeCost
                                 + b.processingCost + b.storageCost)],
       dataType |-> dataType, userTier |-> tier]

\* estimateRegionCost(center, radiusKm, dataType) for a user of the tier
EstimateRegionCost(radiusKm, dataType, tier) ==
  EstimateCost(RegionAreaKm2(radiusKm), dataType, tier)

\* estimatePathCost(start, end, bufferMeters, dataType) for a path of the length
EstimatePathCost(pathLengthKm, bufferMeters, dataType, tier) ==
  EstimateCost(PathCoverageKm2(pathLengthKm, bufferMeters), dataType, tier)

\* valid radii (the slider's), path lengths and buffers
ValidRadii == {1, 2, 5, 10}
PathLengthsKm == {1, 5, 20}
BufferMeters == {50, 100, 1000}

CallEstimateRegionCost(radiusKm, dataType, tier) ==
  /\ call' = [fn |-> "estimateRegionCost", radiusKm |-> radiusKm,
              dataType |-> dataType, tier |-> tier,
              result |-> EstimateRegionCost(radiusKm, dataType, tier)]
  /\ UNCHANGED << compVars, trackerVars, today, client, login, appVars, dashVars >>

CallEstimatePathCost(pathLengthKm, bufferMeters, dataType, tier) ==
  /\ call' = [fn |-> "estimatePathCost", pathLengthKm |-> pathLengthKm,
              bufferMeters |-> bufferMeters, dataType |-> dataType, tier |-> tier,
              result |-> EstimatePathCost(pathLengthKm, bufferMeters, dataType, tier)]
  /\ UNCHANGED << compVars, trackerVars, today, client, login, appVars, dashVars >>

\* formatCost(cost): the currency text with 4 fraction digits, kept as the
\* amount it shows
FormatCost(cost) == Round4(cost)

\* one row of the breakdown card: the field it reads and the text it shows
Row(value) == [value |-> value, text |-> FormatCost(value)]

\* a breakdown card whose Storage row shows the data volume cost
RenderCostBreakdownWrongRow(costEstimate) ==
  IF ~costEstimate.hasBreakdown THEN [shown |-> FALSE]
  ELSE [shown |-> TRUE,
        baseCost |-> Row(costEstimate.costBreakdown.baseCost),
        dataVolume |-> Row(costEstimate.costBreakdown.dataVolumeCost),
        processing |-> Row(costEstimate.costBreakdown.processingCost),
        storage |-> Row(costEstimate.costBreakdown.dataVolumeCost),
        totalCost |-> Row(costEstimate.costBreakdown.totalCost)]

\* CostDisplay.renderCostBreakdown: null without costEstimate?.costBreakdown,
\* else the rows Base Cost, Data Volume, Processing, Storage and Total Cost
RenderCostBreakdown(costEstimate) ==
  IF ~costEstimate.hasBreakdown THEN [shown |-> FALSE]
  ELSE [shown |-> TRUE,
        baseCost |-> Row(costEstimate.costBreakdown.baseCost),
        dataVolume |-> Row(costEstimate.costBreakdown.dataVolumeCost),
        processing |-> Row(costEstimate.costBreakdown.processingCost),
        storage |-> Row(costEstimate.costBreakdown.storageCost),
        totalCost |-> Row(costEstimate.costBreakdown.totalCost)]

\* the costEstimate state of CostDisplay: null, or what estimateCost stored
CostEstimates ==
  { [hasBreakdown |-> FALSE] }
  \cup { [hasBreakdown |-> TRUE,
          costBreakdown |-> EstimateRegionCost(r, t, tier).costBreakdown] :
           r \in ValidRadii, t \in DataTypes, tier \in PricingTiers }
  \cup { [hasBreakdown |-> TRUE,
          costBreakdown |-> EstimatePathCost(len, b, t, tier).costBreakdown] :
           len \in PathLengthsKm, b \in BufferMeters, t \in DataTypes,
           tier \in PricingTiers }

CallRenderCostBreakdown(costEstimate) ==
  /\ call' = [fn |-> "renderCostBreakdown", costEstimate |-> costEstimate,
              result |-> RenderCostBreakdown(costEstimate)]
  /\ UNCHANGED << compVars, trackerVars, today, client, login, appVars, dashVars >>

(***************************************************************************)
(* Usage metrics.  UsageDashboard shows what /usage/metrics answers; the    *)
(* aggregation behind it is modelled from its specification.  Percentages   *)
(* are in tenths of a percent.                                             *)
(***************************************************************************)
\* a / b * 100 in JavaScript: Infinity or NaN when b is 0
JsPercent(a, b) ==
  IF b = 0 THEN [t |-> IF a = 0 THEN "NaN" ELSE "Infinity", n |-> 0]
  ELSE [t |-> "number", n |-> (a * 1000) \div b]

\* the event log of n1 answered region requests of a free user, n2 failed path
\* requests of a premium user and n3 rejected region requests of a premium user
UsageEvents(n1, n2, n3) ==
  [i \in 1 .. n1 |->
     [endpoint |-> "/data/region", userTier |-> "free", responseStatus |-> 200]]
  \o [i \in 1 .. n2 |->
     [endpoint |-> "/data/path", userTier |-> "premium", responseStatus |-> 500]]
  \o [i \in 1 .. n3 |->
     [endpoint |-> "/data/region", userTier |-> "premium", responseStatus |-> 400]]

\* the number of events of a log that satisfy a test
CountEvents(events, Test(_)) == Len(SelectSeq(events, Test))

MetricEndpoints == << "/data/region", "/data/path" >>
MetricTiers == << "free", "premium" >>

\* the counts of the keys that occur in the log, as [key, count] entries
CountsBy(events, keys, KeyOf(_)) ==
  SelectSeq([k \in 1 .. Len(keys) |->
               [key |-> keys[k],
                count |-> CountEvents(events, LAMBDA e : KeyOf(e) = keys[k])]],
            LAMBDA entry : entry.count > 0)

\* metrics without the guard for an empty log
MetricsNoGuard(events) ==
  [totalRequests |-> Len(events),
   errorRate |-> JsPercent(CountEvents(events, LAMBDA e : e.responseStatus >= 400),
                           Len(events)),
   mostUsedEndpoints |-> CountsBy(events, MetricEndpoints, LAMBDA e : e.endpoint),
   userTierDistribution |-> CountsBy(events, MetricTiers, LAMBDA e : e.userTier)]

\* metrics(): totals, the error rate (0 for no events), the endpoints and the
\* tiers with their request counts
Metrics(events) ==
  [totalRequests |-> Len(events),
   errorRate |->
     IF Len(events) = 0 THEN [t |-> "number", n |-> 0]
     ELSE JsPercent(CountEvents(events, LAMBDA e : e.responseStatus >= 400),
                    Len(events)),
   mostUsedEndpoints |-> CountsBy(events, MetricEndpoints, LAMBDA e : e.endpoint),
   userTierDistribution |-> CountsBy(events, MetricTiers, LAMBDA e : e.userTier)]

\* the shares UsageDashboard computes for a card it renders only for a
\* non-empty list: (count / metrics.totalRequests) * 100
Shares(entries, totalRequests) ==
  IF Len(entries) > 0
    THEN [k \in 1 .. Len(entries) |-> JsPercent(entries[k].count, totalRequests)]
    ELSE << >>

\* UsageDashboard with metrics loaded: the Error Rate card, the endpoint card
\* and the tier card
RenderUsageDashboard(metrics) ==
  [errorRate |-> metrics.errorRate,
   endpointShares |-> Shares(metrics.mostUsedEndpoints, metrics.totalRequests),
   tierShares |-> Shares(metrics.userTierDistribution, metrics.totalRequests)]

\* loadDashboardData, then the render: the metrics of a log are shown
CallUsageDashboard(n1, n2, n3) ==
  /\ call' = [fn |-> "usageDashboard", events |-> UsageEvents(n1, n2, n3),
              result |-> RenderUsageDashboard(Metrics(UsageEvents(n1, n2, n3)))]
  /\ UNCHANGED << compVars, trackerVars, today, client, login, appVars, dashVars >>

(***************************************************************************)
(* LoginModal (components/LoginModal.jsx)                                   *)
(***************************************************************************)
\* useState("") for email and error, useState(false) for loading; no timer, no
\* request, onLogin not called yet
ModalInit ==
  /\ email = ""
  /\ modalLoading = FALSE
  /\ modalError = ""
  /\ timers = << >>
  /\ loginRequest = << >>
  /\ onLoginData = ""

\* what the email field can hold: nothing, an address typed in, or the address
\* a demo button puts there
DemoAccounts == {"free2@example.com", "premium1@example.com"}
Emails == {"", "me@example.com"} \cup DemoAccounts

\* the sequence without its i-th element
RemoveAt(seq, i) == SubSeq(seq, 1, i - 1) \o SubSeq(seq, i + 1, Len(seq))

\* the other state of a step of the modal
ModalFrame == UNCHANGED << baseVars, inFlight, noteVars, routeVars >>
ModalFrameButOpen ==
  UNCHANGED << trackerVars, today, client, login, appVars, call, apiKey, radius,
               bufferWidth, payNowPressed, inFlight, noteVars, routeVars >>

\* the App opens the modal (isOpen becomes true); the modal stays mounted
\* while it is closed, so its state is kept
ModalOpens ==
  /\ ~showLoginModal
  /\ showLoginModal' = TRUE
  /\ UNCHANGED modalVars
  /\ ModalFrameButOpen

\* the Cancel button: onClose
ModalCancel ==
  /\ showLoginModal
  /\ showLoginModal' = FALSE
  /\ UNCHANGED modalVars
  /\ ModalFrameButOpen

\* the email field (disabled while loading): setEmail(e.target.value)
SetEmail(value) ==
  /\ showLoginModal /\ ~modalLoading
  /\ email' = value
  /\ UNCHANGED << modalLoading, modalError, timers, loginRequest, onLoginData >>
  /\ ModalFrame

\* handleSubmit of a render in which the email state was `closedOver`, up to
\* its await of the login request
HandleSubmit(closedOver, pressed) ==
  IF closedOver = ""
    THEN /\ modalError' = "Please enter an email address"
         /\ UNCHANGED << modalLoading, loginRequest >>
    ELSE /\ Len(loginRequest) < MaxLoginRequests
         /\ modalLoading' = TRUE
         /\ modalError' = ""
         /\ loginRequest' = Append(loginRequest, [email |-> closedOver, pressed |-> pressed])

\* the Login button or the Enter key (both dead while loading)
ModalSubmit ==
  /\ showLoginModal /\ ~modalLoading
  /\ HandleSubmit(email, "")
  /\ UNCHANGED << email, timers, onLoginData >>
  /\ ModalFrame

\* handleDemoLogin(demoEmail): setEmail(demoEmail), and setTimeout with the
\* handleSubmit of the render the button was pressed in
HandleDemoLogin(demoEmail) ==
  /\ showLoginModal /\ ~modalLoading
  /\ Len(timers) < MaxTimers
  /\ email' = demoEmail
  /\ timers' = Append(timers, [pressed |-> demoEmail, closedOver |-> email])
  /\ UNCHANGED << modalLoading, modalError, loginRequest, onLoginData >>
  /\ ModalFrame

\* the 100 ms are over: the handleSubmit the timer was set with runs
DemoTimerFires ==
  /\ timers # << >>
  /\ HandleSubmit(Head(timers).closedOver, Head(timers).pressed)
  /\ timers' = Tail(timers)
  /\ UNCHANGED << email, onLoginData >>
  /\ ModalFrame

\* a login request is answered: onLogin(userData), onClose(), setEmail(""), or
\* the catch block; finally setLoading(false)
LoginAnswers(i, ok) ==
  /\ i \in 1 .. Len(loginRequest)
  /\ loginRequest' = RemoveAt(loginRequest, i)
  /\ modalLoading' = FALSE
  /\ IF ok
       THEN /\ onLoginData' = loginRequest[i].email
            /\ showLoginModal' = FALSE
            /\ email' = ""
            /\ UNCHANGED modalError
       ELSE /\ modalError' = "Login failed. Please check your email or try demo accounts."
            /\ UNCHANGED << onLoginData, showLoginModal, email >>
  /\ UNCHANGED timers
  /\ ModalFrameButOpen

(***************************************************************************)
(* NotificationManager (components/NotificationManager.jsx) and the App's   *)
(* addNotification and removeNotification                                   *)
(***************************************************************************)
\* useState([]) for notifications
NoteInit ==
  /\ notifications = << >>
  /\ dismissIn = << >>
  /\ nextId = 1

\* the 5000 ms of the auto-dismiss timer, in ticks of 2500 ms
DismissTicks == 2

\* the ids of the notifications shown
ShownIds == { notifications[k].id : k \in 1 .. Len(notifications) }

\* App renders again: removeNotification is a new function in every render, so
\* the effect of every Notification, whose dependencies are [id, onRemove],
\* clears its timer and sets a new one of 5000 ms
RenderNotifications(shown) == [i \in shown |-> DismissTicks]

\* prev.filter((n) => n.id !== id)
WithoutId(list, id) ==
  LET Keep(n) == n.id # id IN SelectSeq(list, Keep)

\* the other state of a step of the notifications
NoteFrame == UNCHANGED << baseVars, inFlight, modalVars, routeVars >>

\* addNotification(message, type); Date.now() + Math.random() gives an id no
\* other notification has
AddNotification(type) ==
  /\ nextId <= MaxNotifications
  /\ notifications' = Append(notifications, [id |-> nextId, type |-> type])
  /\ nextId' = nextId + 1
  /\ dismissIn' = RenderNotifications(ShownIds \cup {nextId})
  /\ NoteFrame

\* any other state of App changes (the radius slider is dragged, say)
AppRenders ==
  /\ dismissIn' = RenderNotifications(ShownIds)
  /\ UNCHANGED << notifications, nextId >>
  /\ NoteFrame

\* 2500 ms pass; a timer that is due fires before more time passes
TimePasses ==
  /\ notifications # << >>
  /\ \A i \in ShownIds : dismissIn[i] > 0
  /\ dismissIn' = [i \in ShownIds |-> dismissIn[i] - 1]
  /\ UNCHANGED << notifications, nextId >>
  /\ NoteFrame

\* removeNotification(id), and App renders again
RemoveNotification(id) ==
  /\ notifications' = WithoutId(notifications, id)
  /\ dismissIn' = RenderNotifications(ShownIds \ {id})
  /\ UNCHANGED nextId
  /\ NoteFrame

\* the timer of the Notification fires: onRemove(id)
DismissTimerFires(id) ==
  /\ id \in ShownIds
  /\ dismissIn[id] = 0
  /\ RemoveNotification(id)

\* the X button of the Notification: onRemove(id)
CloseNotification(id) ==
  /\ id \in ShownIds
  /\ RemoveNotification(id)

(***************************************************************************)
(* googleMaps.js (loadGoogleMaps, fetchDirections) and RouteComponent       *)
(***************************************************************************)
\* the module's `let googleMapsLoaded = false; let googleMapsPromise = null`,
\* an empty pathPoints, RouteComponent not mounted
RouteInit(google, key) ==
  /\ googleMapsLoaded = FALSE
  /\ googleMapsPromise = "null"
  /\ scripts = 0
  /\ windowGoogle = google
  /\ mapsKey = key
  /\ routePoints = [len |-> 0, pair |-> 0]
  /\ routeData = 0
  /\ routeLoading = FALSE
  /\ fetches = << >>

\* the other state of a step of the route
RouteFrame == UNCHANGED << baseVars, inFlight, modalVars, noteVars >>

\* loadGoogleMaps(apiKey): the module's state after the call and the state of
\* the promise it returns
LoadGoogleMaps ==
  IF googleMapsLoaded
    THEN [loaded |-> TRUE, promise |-> googleMapsPromise, scripts |-> scripts,
          returns |-> "resolved"]
  ELSE IF googleMapsPromise # "null"
    THEN [loaded |-> FALSE, promise |-> googleMapsPromise, scripts |-> scripts,
          returns |-> googleMapsPromise]
  ELSE IF windowGoogle
    THEN [loaded |-> TRUE, promise |-> "resolved", scripts |-> scripts,
          returns |-> "resolved"]
  ELSE [loaded |-> FALSE, promise |-> "pending", scripts |-> scripts + 1,
        returns |-> "pending"]

\* a fetchDirections without its try and catch
LoadFailureEscapes == [dir |-> "rejected", value |-> 0]

\* the catch block of fetchDirections: return null
LoadFailureCaught == [dir |-> "resolved", value |-> 0]

\* fetchDirections(start, end, apiKey) up to its first wait: what has become
\* of its promise, and whether the directions request is out
FetchDirections(load) ==
  IF ~mapsKey THEN [dir |-> "resolved", value |-> 0, asked |-> FALSE]
  ELSE CASE load.returns = "resolved" -> [dir |-> "directions", value |-> 0, asked |-> TRUE]
         [] load.returns = "pending" -> [dir |-> "load", value |-> 0, asked |-> FALSE]
         [] OTHER -> [dir |-> LoadFailureCaught.dir, value |-> LoadFailureCaught.value,
                      asked |-> FALSE]

\* fetchDirections has settled for the fetchRoute run f: `await Promise.race`
\* goes on to setRouteData(directions), or to the catch block, then finally;
\* a run that ended before (its 15 s were over), or whose RouteComponent was
\* unmounted, sets nothing
RouteAfter(f, settled) ==
  IF f.route = "await" /\ settled.dir \in {"resolved", "rejected"}
    THEN [f EXCEPT !.route = "done", !.dir = settled.dir, !.value = settled.value]
    ELSE [f EXCEPT !.dir = settled.dir, !.value = settled.value]

\* the component's routeData and loading after the runs in `ended` went on with
\* the values they awaited; React keeps the last setRouteData
Ends(f, after) == f.route = "await" /\ after.route = "done" /\ ~f.orphan

SetByRuns(before, after) ==
  LET ended == { k \in 1 .. Len(before) : Ends(before[k], after[k]) }
      last == CHOOSE k \in ended : \A j \in ended : j <= k
  IN  IF ended = {} THEN UNCHANGED << routeData, routeLoading >>
      ELSE /\ routeData' = IF after[last].dir = "rejected" THEN 0 ELSE after[last].value
           /\ routeLoading' = FALSE

\* fetchRoute(), run by the effect on [pathPoints] when there are two points:
\* setLoading(true), fetchDirections is called and the run waits for it
FetchRoute(pair) ==
  LET load == LoadGoogleMaps
      called == FetchDirections(load)
      f == RouteAfter([pair |-> pair, route |-> "await", orphan |-> FALSE,
                       dir |-> "none", value |-> 0,
                       timer |-> called.asked, callback |-> called.asked],
                      called)
  IN  /\ Len(fetches) < MaxFetches
      /\ fetches' = Append(fetches, f)
      /\ IF mapsKey
           THEN /\ googleMapsLoaded' = load.loaded
                /\ googleMapsPromise' = load.promise
                /\ scripts' = load.scripts
           ELSE UNCHANGED << googleMapsLoaded, googleMapsPromise, scripts >>
      /\ IF f.route = "done"
           THEN /\ routeData' = IF f.dir = "rejected" THEN 0 ELSE f.value
                /\ routeLoading' = FALSE
           ELSE /\ routeLoading' = TRUE
                /\ UNCHANGED routeData

\* App sets pathPoints to a new array of len points; MapComponent renders
\* RouteComponent for a non-empty pathPoints only, and the effect on
\* [pathPoints] runs: fetchRoute() for two points, setRouteData(null) otherwise
PathPointsChange(len) ==
  /\ len = 0 => routePoints.len > 0
  /\ len = 2 => routePoints.len = 1
  /\ CASE len = 0 ->
            /\ routePoints' = [len |-> 0, pair |-> 0]
            /\ routeData' = 0
            /\ routeLoading' = FALSE
            /\ fetches' = [k \in 1 .. Len(fetches) |->
                             [fetches[k] EXCEPT !.orphan = TRUE]]
            /\ UNCHANGED << googleMapsLoaded, googleMapsPromise, scripts >>
       [] len = 1 ->
            /\ routePoints' = [len |-> 1, pair |-> 0]
            /\ routeData' = 0
            /\ UNCHANGED << routeLoading, fetches, googleMapsLoaded,
                            googleMapsPromise, scripts >>
       [] OTHER ->
            /\ routePoints' = [len |-> 2, pair |-> Len(fetches) + 1]
            /\ FetchRoute(Len(fetches) + 1)
  /\ UNCHANGED << windowGoogle, mapsKey >>
  /\ RouteFrame

\* script.onload: googleMapsLoaded = true and the promise is resolved; every
\* fetchDirections that waits for it asks for its directions
ScriptOnload ==
  /\ googleMapsPromise = "pending"
  /\ googleMapsLoaded' = TRUE
  /\ googleMapsPromise' = "resolved"
  /\ windowGoogle' = TRUE
  /\ fetches' = [k \in 1 .. Len(fetches) |->
                   IF fetches[k].dir = "load"
                     THEN [fetches[k] EXCEPT !.dir = "directions", !.timer = TRUE,
                                             !.callback = TRUE]
                     ELSE fetches[k]]
  /\ UNCHANGED << scripts, mapsKey, routePoints, routeData, routeLoading >>
  /\ RouteFrame

\* a script.onerror that lets the next call load again
ScriptOnerrorRetry ==
  /\ googleMapsPromise = "pending"
  /\ googleMapsPromise' = "null"
  /\ fetches' = [k \in 1 .. Len(fetches) |->
                   IF fetches[k].dir = "load"
                     THEN RouteAfter(fetches[k], LoadFailureCaught)
                     ELSE fetches[k]]
  /\ SetByRuns(fetches, fetches')
  /\ UNCHANGED << googleMapsLoaded, scripts, windowGoogle, mapsKey, routePoints >>
  /\ RouteFrame

\* script.onerror: the promise is rejected, and stays the module's promise;
\* every fetchDirections that waits for it goes to its catch block
ScriptOnerror ==
  /\ googleMapsPromise = "pending"
  /\ googleMapsPromise' = "rejected"
  /\ fetches' = [k \in 1 .. Len(fetches) |->
                   IF fetches[k].dir = "load"
                     THEN RouteAfter(fetches[k], LoadFailureCaught)
                     ELSE fetches[k]]
  /\ SetByRuns(fetches, fetches')
  /\ UNCHANGED << googleMapsLoaded, scripts, windowGoogle, mapsKey, routePoints >>
  /\ RouteFrame

\* a step of the run k alone
RunStep(k, f) ==
  /\ fetches' = [fetches EXCEPT ![k] = f]
  /\ SetByRuns(fetches, fetches')
  /\ UNCHANGED << googleMapsLoaded, googleMapsPromise, scripts, windowGoogle,
                  mapsKey, routePoints >>
  /\ RouteFrame

\* the 10 s of "Google Maps API loading timeout" are over for the call of run k
LoadTimeout(k) ==
  /\ k \in 1 .. Len(fetches)
  /\ fetches[k].dir = "load"
  /\ RunStep(k, RouteAfter(fetches[k], LoadFailureCaught))

\* resolve(value) of the promise fetchDirections returns: a promise that is
\* settled stays as it is
Resolve(f, value) ==
  IF f.dir = "directions" THEN RouteAfter(f, [dir |-> "resolved", value |-> value])
  ELSE f

\* the 8 s of the directions request are over: resolve(null)
DirectionsTimeout(k) ==
  /\ k \in 1 .. Len(fetches)
  /\ fetches[k].timer
  /\ RunStep(k, Resolve([fetches[k] EXCEPT !.timer = FALSE], 0))

\* the callback of directionsService.route: clearTimeout, then resolve with the
\* route (status OK and a route) or with null
DirectionsAnswers(k, ok) ==
  /\ k \in 1 .. Len(fetches)
  /\ fetches[k].callback
  /\ RunStep(k, Resolve([fetches[k] EXCEPT !.timer = FALSE, !.callback = FALSE],
                        IF ok THEN fetches[k].pair ELSE 0))

\* the 15 s of "Route calculation timeout" are over while run k waits: the
\* catch block of fetchRoute, then finally
RouteTimeout(k) ==
  /\ k \in 1 .. Len(fetches)
  /\ fetches[k].route = "await"
  /\ RunStep(k, [fetches[k] EXCEPT !.route = "done"])

(***************************************************************************)
(* Specifications                                                         *)
(***************************************************************************)
AppStart ==
  /\ userId = ""
  /\ userTier = "FREE"
  /\ currentUsage = 1
  /\ heap = [a \in Addr |-> ZeroUsage]
  /\ today = 1
  /\ log = << >>
  /\ entryStart = 0
  /\ client = [c \in Clients |-> IdleClient]
  /\ login = NoLogin
  /\ user = NoUser
  /\ showPaymentModal = FALSE
  /\ processing = FALSE
  /\ loading = FALSE
  /\ currentCost = Num(0)
  /\ selectedAPI = "uhi"
  /\ requestType = "region"
  /\ regionCenter = FALSE
  /\ pathPoints = 0
  /\ mapData = "null"
  /\ effectPending = FALSE
  /\ run = IdleRun
  /\ apiKey = ""
  /\ showLoginModal = FALSE
  /\ radius = 5
  /\ bufferWidth = 100
  /\ payNowPressed = FALSE
  /\ call = NoCall
  /\ inFlight = 0
  /\ ModalInit
  /\ NoteInit

\* no window.google before the script, and an API key in the environment
Init == AppStart /\ RouteInit(FALSE, TRUE)

\* the dashboard: the App's handlers, the tracker called by them alone
Next ==
  \/ \E d \in UserData : HandleLogin(d)
  \/ \E connected \in BOOLEAN : LoginResponds(connected)
  \/ HandleLogout
  \/ HandleUpgrade
  \/ PayNow
  \/ PaymentTimer
  \/ ClosePaymentModal
  \/ HandleRegionClick
  \/ HandlePathClick
  \/ \E api \in {"uhi", "potholes"} : HandleAPIChange(api)
  \/ \E type \in {"region", "path"} : HandleRequestTypeChange(type)
  \/ InitCostTracker
  \/ HandleGetData
  \/ \E r \in EstimateResults : EstimateResponds(r)
  \/ \E r \in FetchResults : FetchResponds(r)

Spec == Init /\ [][Next]_vars

\* the tracker on its own, its methods called by the clients
TrackerNext ==
  \/ \E c \in Clients, uid \in UserIds, tier \in Tiers : TInitialize(c, uid, tier)
  \/ \E c \in Clients : TGetCurrentUsage(c)
  \/ \E c \in Clients, est \in Estimates : TCanMakeRequest(c, est)
  \/ \E c \in Clients, e \in Events : TRecordRequest(c, e)
  \/ \E c \in Clients : TResume(c)
  \/ DayPasses

TrackerSpec == Init /\ [][TrackerNext]_vars

\* the dashboard of geospatial-dashboard/src, which uses no tracker
DashInit ==
  /\ userId = ""
  /\ userTier = "FREE"
  /\ currentUsage = 1
  /\ heap = [a \in Addr |-> ZeroUsage]
  /\ today = 1
  /\ log = << >>
  /\ entryStart = 0
  /\ client = [c \in Clients |-> IdleClient]
  /\ login = DashNoLogin
  /\ user = DashNoUser
  /\ showPaymentModal = FALSE
  /\ processing = FALSE
  /\ loading = FALSE
  /\ currentCost = Num(0)
  /\ selectedAPI = "uhi"
  /\ requestType = "region"
  /\ regionCenter = FALSE
  /\ pathPoints = 0
  /\ mapData = "null"
  /\ effectPending = FALSE
  /\ run = IdleRun
  /\ apiKey = ""
  /\ showLoginModal = FALSE
  /\ radius = 5
  /\ bufferWidth = 100
  /\ payNowPressed = FALSE
  /\ call = NoCall
  /\ inFlight = 0
  /\ ModalInit
  /\ NoteInit
  /\ RouteInit(FALSE, TRUE)

DashNext ==
  \/ OpenLoginModal
  \/ CloseLoginModal
  \/ \E d \in DashUserData : DashHandleLogin(d)
  \/ \E connected \in BOOLEAN : DashLoginResponds(connected)
  \/ DashHandleLogout
  \/ DashHandleUpgrade
  \/ \E ok \in BOOLEAN : PaymentModalHandlePayment(ok)
  \/ DashClosePaymentModal
  \/ DashHandleRegionClick
  \/ DashHandlePathClick
  \/ DashHandleLocationSelect
  \/ \E api \in {"uhi", "potholes"} : DashHandleAPIChange(api)
  \/ \E type \in {"region", "path"} : DashHandleRequestTypeChange(type)
  \/ \E v \in SliderValues : SetRadius(v)
  \/ \E t \in BufferTexts : SetBufferWidth(t)
  \/ DashHandleGetData
  \/ \E r \in DashResponses : DashFetchResponds(r)

DashSpec == DashInit /\ [][DashNext]_vars

\* the pure functions, called with every input of their bounded domains
PureNext ==
  \/ \E c \in Centers, r \in RadiiKm, t \in DataTypes : CallGetDataInRadius(c, r, t)
  \/ \E lat1 \in Lats, lng1 \in Lngs, lat2 \in Lats, lng2 \in Lngs :
       CallCalculateDistance(lat1, lng1, lat2, lng2)
  \/ \E r \in ValidRadii, t \in DataTypes, tier \in PricingTiers :
       CallEstimateRegionCost(r, t, tier)
  \/ \E len \in PathLengthsKm, b \in BufferMeters, t \in DataTypes,
         tier \in PricingTiers :
       CallEstimatePathCost(len, b, t, tier)
  \/ \E e \in CostEstimates : CallRenderCostBreakdown(e)
  \/ \E n1 \in 0 .. MaxOkEvents, n2 \in 0 .. MaxErrorEvents, n3 \in 0 .. 1 :
       CallUsageDashboard(n1, n2, n3)

PureSpec == Init /\ [][PureNext]_vars

\* LoginModal under its user and the login endpoint
LoginNext ==
  \/ ModalOpens
  \/ ModalCancel
  \/ \E e \in Emails : SetEmail(e)
  \/ ModalSubmit
  \/ \E d \in DemoAccounts : HandleDemoLogin(d)
  \/ DemoTimerFires
  \/ \E i \in 1 .. MaxLoginRequests, ok \in BOOLEAN : LoginAnswers(i, ok)

LoginSpec == Init /\ [][LoginNext]_vars

\* the notifications under the App and the clock: time passes, and a timer
\* that is due fires
NoteNext ==
  \/ \E type \in {"info", "error"} : AddNotification(type)
  \/ AppRenders
  \/ TimePasses
  \/ \E id \in 1 .. MaxNotifications : DismissTimerFires(id)
  \/ \E id \in 1 .. MaxNotifications : CloseNotification(id)

NoteSpec ==
  /\ Init /\ [][NoteNext]_vars
  /\ WF_vars(TimePasses)
  /\ \A id \in 1 .. MaxNotifications : WF_vars(DismissTimerFires(id))

\* RouteComponent under the App's path, the script loader and the directions
\* service, with or without window.google and an API key at the start; a timer
\* that was set fires unless it is cleared
RouteStart ==
  /\ AppStart
  /\ \E google \in BOOLEAN, key \in BOOLEAN : RouteInit(google, key)

RouteNext ==
  \/ \E len \in 0 .. 2 : PathPointsChange(len)
  \/ ScriptOnload
  \/ ScriptOnerror
  \/ \E k \in 1 .. MaxFetches : LoadTimeout(k)
  \/ \E k \in 1 .. MaxFetches : DirectionsTimeout(k)
  \/ \E k \in 1 .. MaxFetches, ok \in BOOLEAN : DirectionsAnswers(k, ok)
  \/ \E k \in 1 .. MaxFetches : RouteTimeout(k)

RouteSpec ==
  /\ RouteStart /\ [][RouteNext]_vars
  /\ \A k \in 1 .. MaxFetches :
       WF_vars(LoadTimeout(k)) /\ WF_vars(DirectionsTimeout(k))

(***************************************************************************)
(* What the claims speak of                                                *)
(***************************************************************************)
\* the records made on the usage object the tracker holds now
EntryLog == SubSeq(log, entryStart + 1, Len(log))

RECURSIVE SumTotals(_)
\* the sum of the numeric total costs of a sequence of records
SumTotals(records) ==
  IF records = << >> THEN 0
  ELSE Head(records).cost.n + SumTotals(Tail(records))

\* the records of a sequence made on day d
OnDay(records, d) == SelectSeq(records, LAMBDA r : r.day = d)

\* the request ids of a sequence of records
Ids(records) == { records[i].id : i \in 1 .. Len(records) }

\* the tier table of the claims: the free tier allows no request, a paying tier
\* has a positive monthly request limit
ClaimAllowsRequests(tier) == tier # "FREE"
ClaimLimit(tier) == IF tier = "FREE" THEN 0 ELSE ClaimRequestLimit

\* one more request would exceed the positive monthly limit of the tier
OverLimit ==
  /\ ClaimLimit(userTier) > 0
  /\ Usage.requests_month.n + 1 > ClaimLimit(userTier)

\* client c calls the given method in this step
CallsNow(c, op) ==
  client[c].pc = "idle" /\ client'[c].pc = "awaiting" /\ client'[c].op = op

\* C1: canMakeRequest returns false whenever the tier's positive monthly request
\* limit would be exceeded by one more request, whatever the estimate, and true
\* for a one-request estimate that stays within the limit of a paying tier.
C1_AdmissionHonoursRequestLimit ==
  [][\A c \in Clients : CallsNow(c, "canMakeRequest") =>
        /\ OverLimit => client'[c].admit = "false"
        /\ (ClaimLimit(userTier) > 0 /\ ~OverLimit) => client'[c].admit = "true"]_vars

\* C2: on the free tier canMakeRequest returns false for every estimate in every
\* usage state.
C2_FreeTierNeverAdmitted ==
  [][\A c \in Clients :
        (CallsNow(c, "canMakeRequest") /\ ~ClaimAllowsRequests(userTier))
          => client'[c].admit = "false"]_vars

\* C3: after n records made by the request handler on a fresh entry,
\* requests_today is n and cost_today is the sum of the n estimates' total costs.
C3_HandlerRecordAddsTotalCost ==
  /\ Usage.requests_today = Num(Len(EntryLog))
  /\ Usage.cost_today = Num(SumTotals(EntryLog))

\* C4: recording a request whose id was recorded before leaves the counters as
\* they are.
C4_RecordIdempotentById ==
  [][(Len(log') = Len(log) + 1 /\ log'[Len(log')].id \in Ids(log))
        => heap'[currentUsage'] = heap[currentUsage]]_vars

\* C5: whatever way recordRequest calls overlap, no update is lost: the four
\* counters of the entry are the number of calls made on it and the sum of their
\* costs.
C5_NoLostUpdate ==
  /\ Usage.requests_today = Num(Len(EntryLog))
  /\ Usage.requests_month = Num(Len(EntryLog))
  /\ Usage.cost_today = Num(SumTotals(EntryLog))
  /\ Usage.cost_month = Num(SumTotals(EntryLog))

\* C5, its case: two recordRequest calls of different costs are both outstanding
C5_Witness ==
  /\ \A c \in Clients : client[c].pc = "awaiting" /\ client[c].op = "recordRequest"
  /\ Len(EntryLog) = 2
  /\ EntryLog[1].cost # EntryLog[2].cost

\* C6: while the tracker serves one user, the running totals change only through
\* a record (the day does not change in the dashboard's specification): no other
\* step, re-initialising for that user included, changes or resets them.
C6_TotalsChangeOnlyByRecord ==
  [][(userId' = userId /\ heap'[currentUsage'] # heap[currentUsage])
       => Len(log') = Len(log) + 1]_vars

\* C7: the value getCurrentUsage returned stays what it was when it was read,
\* whatever is recorded afterwards.
C7_UsageIsSnapshot ==
  \A c \in Clients : client[c].held # 0 => heap[client[c].held] = client[c].seen

\* C8: an access (any method call) on a day leaves the tracker on an entry whose
\* daily counters count the records of that day alone.
C8_DailyCountersRollOver ==
  [][\A c \in Clients :
        (\E op \in {"getCurrentUsage", "canMakeRequest", "recordRequest"} :
            CallsNow(c, op))
          => /\ heap'[currentUsage'].requests_today
                  = Num(Len(OnDay(SubSeq(log', entryStart' + 1, Len(log')), today)))
             /\ heap'[currentUsage'].cost_today
                  = Num(SumTotals(OnDay(SubSeq(log', entryStart' + 1, Len(log')), today)))]_vars

\* C9: a data request runs estimate, admission, fetch, record in that order: the
\* estimate is asked for by an idle handler, the fetch is sent only from the
\* estimate step with an estimate obtained and admitted, a record is made only
\* when the fetch answered, and a run that was denied or whose estimate or fetch
\* failed records nothing.
C9_EstimateAdmitFetchRecord ==
  [][/\ (run'.pc = "estimate" /\ run.pc # "estimate") => run.pc = "idle"
     /\ (run'.pc = "fetch" /\ run.pc # "fetch")
          => run.pc = "estimate" /\ run'.estimated /\ CanMakeRequest(run'.estimatedCost)
     /\ log' # log => run.pc = "fetch" /\ run'.outcome = "fetched"
     /\ (run.pc # "idle" /\ run'.outcome \in {"denied", "estimateFailed", "fetchFailed"})
          => log' = log]_vars

\* C9, its case: a run went through all four steps and its record is in the log
C9_Witness ==
  /\ run.pc = "idle" /\ run.outcome = "fetched"
  /\ Len(log) = 2

\* the admission rule of the claims, for one more request of the tracker's user
ClaimCanAfford == ClaimAllowsRequests(userTier) /\ ~OverLimit

DataRequestSent == run'.pc = "fetch" /\ run.pc # "fetch"

\* a handleGetData run is entered in this step and something changes
GetDataRuns == run.pc = "idle" /\ run' # run

\* C12: a data request is sent only for a logged-in user whose paymentStatus is
\* "paid"; a handleGetData run for a missing or unpaid user returns with no
\* request sent, and the simulated backend would reject that user's data
\* request with status 402, whatever Math.random() draws.
C12_DataRequestsNeedPaidUser ==
  [][/\ DataRequestSent => (user.loggedIn /\ user.paymentStatus = "paid")
     /\ (GetDataRuns /\ ~(user.loggedIn /\ user.paymentStatus = "paid"))
          => /\ run'.pc = "idle" /\ ~loading'
             /\ \A rnd \in RandomTenths :
                  SimulateAPICall("data/" \o requestType,
                                  [paymentStatus |-> user.paymentStatus], rnd)
                    = [settled |-> "reject", status |-> 402]]_vars

\* C12, its case: the run of an unpaid user ended at the checks
C12_Witness ==
  /\ user.loggedIn /\ user.paymentStatus = "unpaid"
  /\ run.pc = "idle" /\ run.outcome = "payment"
  /\ ~loading

\* C13: a query with radius <= 0 or buffer <= 0 is rejected before any data
\* request: whatever the slider and the buffer field produced, a region request
\* is sent only with a positive radius and a path request only with a positive
\* buffer.
C13_InvalidGeometryRejected ==
  [][DataRequestSent =>
       /\ run'.requestType = "region" => radius > 0
       /\ run'.requestType = "path" => bufferWidth > 0]_vars

\* the squared distance, in km, of a UHI sample or a pothole feature to a center
ClaimDistanceSq(item, center, dataType) ==
  IF dataType = "potholes"
    THEN (item.coordinates[2] - center.lat) * (item.coordinates[2] - center.lat)
           + (item.coordinates[1] - center.lng) * (item.coordinates[1] - center.lng)
    ELSE (item.lat - center.lat) * (item.lat - center.lat)
           + (item.lng - center.lng) * (item.lng - center.lng)

\* the data set of a type, as a sequence
ClaimData(dataType) ==
  IF dataType = "potholes" THEN DummyPotholeFeatures ELSE DummyUhiData

C15_DistanceZeroAndSymmetric ==
  call.fn = "calculateDistance" =>
    /\ call.result = CalculateDistance(call.lat2, call.lng2, call.lat1, call.lng1)
    /\ (call.lat1 = call.lat2 /\ call.lng1 = call.lng2) => call.result = 0

\* C15, its case: the distance of two points that differ in latitude and in
\* longitude was computed, and is not 0
C15_Witness ==
  /\ call.fn = "calculateDistance"
  /\ call.lat1 # call.lat2 /\ call.lng1 # call.lng2
  /\ call.lat1 # 0 - call.lat2
  /\ call.result > 0

\* C16: for a fixed tier and data type the estimated total cost does not
\* decrease when the radius grows, nor when the buffer or the path length does.
C16_CostMonotone ==
  /\ call.fn = "estimateRegionCost" =>
       \A r2 \in ValidRadii :
          r2 > call.radiusKm =>
            call.result.costBreakdown.totalCost
              <= EstimateRegionCost(r2, call.dataType, call.tier).costBreakdown.totalCost
  /\ call.fn = "estimatePathCost" =>
       /\ \A b2 \in BufferMeters :
            b2 > call.bufferMeters =>
              call.result.costBreakdown.totalCost
                <= EstimatePathCost(call.pathLengthKm, b2, call.dataType,
                                    call.tier).costBreakdown.totalCost
       /\ \A len2 \in PathLengthsKm :
            len2 > call.pathLengthKm =>
              call.result.costBreakdown.totalCost
                <= EstimatePathCost(len2, call.bufferMeters, call.dataType,
                                    call.tier).costBreakdown.totalCost

\* C16, its case: an estimate for a radius that has larger valid radii, whose
\* total is more than the base cost
C16_Witness ==
  /\ call.fn = "estimateRegionCost"
  /\ call.radiusKm = 5
  /\ call.result.costBreakdown.totalCost > call.result.costBreakdown.baseCost

\* the four components of a breakdown add up to its total, to the 4 decimal
\* places a total is kept at, and none of the five is negative
ClaimAddsUp(baseCost, dataVolumeCost, processingCost, storageCost, totalCost) ==
  /\ totalCost = Round4(baseCost + dataVolumeCost + processingCost + storageCost)
  /\ baseCost >= 0 /\ dataVolumeCost >= 0 /\ processingCost >= 0
  /\ storageCost >= 0 /\ totalCost >= 0

ClaimErrorCount ==
  Cardinality({ i \in 1 .. Len(call.events) : call.events[i].responseStatus >= 400 })

C19_LoadingBracketsTheRun ==
  [][/\ DataRequestSent => (loading' /\ mapData' = "loading")
     /\ (run.pc = "fetch" /\ run'.pc = "idle")
          => (~loading' /\ mapData' # "loading")
     /\ (GetDataRuns /\ run'.pc = "idle")
          => (loading' = loading /\ mapData' = mapData)]_vars

\* C19, its case: a run that passed the checks ended with an empty response
C19_Witness ==
  /\ run.pc = "idle" /\ run.outcome = "empty"
  /\ ~loading /\ mapData = "null"
  /\ user.loggedIn

\* C20: a logged-in unpaid user's press of Pay Now starts the upgrade call
\* (processing becomes true until it ends), and the call's end leaves processing
\* false, with paymentStatus "paid" and the modal closed after a success and
\* paymentStatus unchanged after a failure.
C20_PayNowUpgradesUser ==
  [][/\ (showPaymentModal /\ ~payNowPressed /\ payNowPressed'
           /\ user.loggedIn /\ user.paymentStatus = "unpaid")
          => processing'
     /\ (processing /\ ~processing')
          => \/ user'.paymentStatus = "paid" /\ ~showPaymentModal'
             \/ user' = user]_vars

\* C22: pathPoints never holds more than 2 points, a change of a full path
\* leaves at most 1 point, and regionCenter is set only while pathPoints is
\* empty.
C22_PathAndCenterExclusive ==
  [][/\ pathPoints' <= 2
     /\ regionCenter' => pathPoints' = 0
     /\ (pathPoints = 2 /\ pathPoints' # 2) => pathPoints' <= 1]_vars

\* C22, its case: a path of two points is set in path mode
C22_Witness == pathPoints = 2 /\ requestType = "path" /\ ~regionCenter

\* C23: when the session ends (user becomes null, by handleLogout or by an
\* authentication failure of a data request), the API client holds no API key,
\* and it holds none for as long as nobody is logged in and no login runs.
C23_NoKeyAfterSessionEnd ==
  [][/\ (user.loggedIn /\ ~user'.loggedIn) => apiKey' = ""
     /\ (~user.loggedIn /\ apiKey = "" /\ ~login'.active /\ ~user'.loggedIn)
          => apiKey' = ""]_vars

\* C24: while nobody is logged in mapData is null, also when a data request
\* started before the logout is answered after it; and a data response is put
\* on the map only for the API and the request type that are selected now.
C24_NoStaleDataOnMap ==
  [][/\ ~user'.loggedIn => mapData' = "null"
     /\ (run.pc = "fetch" /\ run'.pc = "idle" /\ run'.outcome = "fetched")
          => (run.selectedAPI = selectedAPI /\ run.requestType = requestType)]_vars

\* C25: a data request answered with 402 opens the payment modal and one
\* answered with 401 sets user to null, whatever the message in the body; any
\* other failure does neither; mapData is null after all three.
C25_StatusDecidesErrorHandling ==
  [][\A r \in DashResponses :
       (r.kind = "error" /\ DashFetchResponds(r)) =>
         /\ mapData' = "null"
         /\ r.status = 402 => showPaymentModal'
         /\ r.status = 401 => ~user'.loggedIn
         /\ r.status \notin {401, 402} =>
              (showPaymentModal' = showPaymentModal /\ user' = user)]_vars

\* C26: at most one handleGetData run of the client is between its
\* setLoading(true) and its finally at any time, and loading is true exactly
\* while one is.
C26_OneRequestInFlight == inFlight <= 1 /\ (loading <=> inFlight = 1)

\* C26, its case: a run has passed its estimate and admission and waits for
\* its data, with the button disabled
C26_Witness == inFlight = 1 /\ run.pc = "fetch" /\ loading /\ ~GetDataEnabled

\* C21: when the timer of a pressed demo button fires, one login request is
\* sent and its email is the address of that demo account, whatever the email
\* field held before the press; and the answer to a request that a demo
\* button caused hands that account's user data to onLogin.
C21_DemoLoginSendsDemoEmail ==
  [][/\ (timers # << >> /\ timers' = Tail(timers)) =>
          /\ Len(loginRequest') = Len(loginRequest) + 1
          /\ loginRequest'[Len(loginRequest')].email = Head(timers).pressed
     /\ \A i \in 1 .. Len(loginRequest) :
          (loginRequest[i].pressed # "" /\ LoginAnswers(i, TRUE))
            => onLoginData' = loginRequest[i].pressed]_vars

\* C27: every notification shown is removed in the end with no press of its X
\* button needed, however often App renders and whatever is added or removed
\* meanwhile; and removing a notification leaves the others in place.
C27_NotificationsAutoDismiss ==
  /\ \A id \in 1 .. MaxNotifications :
       (id \in ShownIds) ~> (id \notin ShownIds)
  /\ [][\A id \in ShownIds :
          (id \notin ShownIds') => notifications' = WithoutId(notifications, id)]_vars

\* C28: at most one script element is ever appended to the document; a call of
\* loadGoogleMaps made while a load is in progress, after a load or after a
\* failed load appends none and leaves the module's promise as it is.
C28_OneMapsScript ==
  [][/\ scripts' <= 1
     /\ (googleMapsLoaded \/ googleMapsPromise # "null") => scripts' = scripts
     /\ (Len(fetches') > Len(fetches) /\ googleMapsPromise # "null")
          => googleMapsPromise' = googleMapsPromise]_vars

\* C28, its case: a script was appended, its load failed, and a later call of
\* fetchDirections got the rejected promise
C28_Witness ==
  /\ scripts = 1 /\ googleMapsPromise = "rejected"
  /\ Len(fetches) >= 2
  /\ fetches[2].dir = "resolved" /\ fetches[2].value = 0

\* C29: every fetchDirections call is resolved in the end, with a route or
\* with null, and never rejected; once it is settled its promise stays as it
\* is; and when a fetchRoute run of the mounted RouteComponent ends, loading
\* is false.
C29_FetchDirectionsSettles ==
  /\ \A k \in 1 .. MaxFetches :
       (k <= Len(fetches)) ~> (k <= Len(fetches) /\ fetches[k].dir = "resolved")
  /\ [][\A k \in 1 .. Len(fetches) :
          /\ fetches'[k].dir # "rejected"
          /\ fetches[k].dir = "resolved" =>
               (fetches'[k].dir = "resolved" /\ fetches'[k].value = fetches[k].value)
          /\ Ends(fetches[k], fetches'[k]) => ~routeLoading']_vars
  /\ [](\A k \in 1 .. Len(fetches) : fetches[k].dir # "rejected")

\* C29, its case: the directions request of a call ran into its 8 s, the call
\* was resolved with null, and the callback came after
C29_Witness ==
  /\ Len(fetches) >= 1
  /\ fetches[1].dir = "resolved" /\ fetches[1].value = 0
  /\ ~fetches[1].timer /\ ~fetches[1].callback
  /\ googleMapsLoaded /\ ~routeLoading /\ fetches[1].route = "done"

\* C30: when no fetchRoute run is waiting any more, routeData is null or the
\* route of the two points pathPoints holds now, and null when pathPoints
\* holds fewer than two.
C30_RouteBelongsToPath ==
  (\A k \in 1 .. Len(fetches) : fetches[k].route = "done") =>
    IF routePoints.len = 2 THEN routeData \in {0, routePoints.pair}
    ELSE routeData = 0

=============================================================================
